---- MODULE Spec2Model ----
(***************************************************************************)
(* The vertex data contract of src/metal_shaders/shader_types.h: the two   *)
(* records VertexIn and VertexOut, their byte layout under the Metal       *)
(* vector types float3 / float4, the attribute indices bound to the fields *)
(* of VertexIn, and the pipeline that moves one vertex through them        *)
(* (host write -> stage-in fetch -> vertex function -> rasterizer ->       *)
(* fragment stage).  Float values are kept as IEEE-754 binary32 bit        *)
(* patterns, four little-endian bytes each, so that "bit-identical" is     *)
(* equality of words and a layout error shows up as different bytes.       *)
(***************************************************************************)
EXTENDS Integers, Sequences, FiniteSets, TLC

VARIABLES producer, geometry, buffer, hostWritten, pc, vin, vout, varying, emitted

vars == <<producer, geometry, buffer, hostWritten, pc, vin, vout, varying, emitted>>

(* ------------------------------ bounds --------------------------------- *)

\* Number of vertices in the buffer (one vertex-stage invocation each).
NumVertices == 2

Vertices == 0 .. (NumVertices - 1)

\* Object-space positions and RGBA colours the host may hold for a vertex.
Positions == { <<0, 0, 0>>, <<-1, 2, 3>> }

Colors == { <<1, 0, 0, 1>>, <<0, 1, 0, 1>> }

(* --------------------------- the two records --------------------------- *)

\* Mutant of VertexIn: the two attribute indices are exchanged.
VertexInSwappedAttributes ==
    << [name |-> "position", type |-> "float3", attr |-> 1],
       [name |-> "color",    type |-> "float4", attr |-> 0] >>

\* struct VertexIn { float3 position [[attribute(0)]]; float4 color [[attribute(1)]]; }
VertexIn ==
    << [name |-> "position", type |-> "float3", attr |-> 0],
       [name |-> "color",    type |-> "float4", attr |-> 1] >>

\* struct VertexOut { float4 position [[position]]; float4 color; }
\* attr -1 marks a field that carries no [[attribute(n)]] index.
VertexOut ==
    << [name |-> "position", type |-> "float4", attr |-> -1],
       [name |-> "color",    type |-> "float4", attr |-> -1] >>

(* ------------------------- Metal vector types -------------------------- *)

\* sizeof(float)
FloatSize == 4

\* Mutant of Lanes: float3 is taken for a 4-component vector.
LanesAllFour(type) == 4

\* Number of components of a vector type.
Lanes(type) == IF type = "float3" THEN 3 ELSE 4

\* Mutant of SizeOf: a 3-component vector takes 3 floats (packed_float3).
SizeOfPacked(type) == FloatSize * Lanes(type)

\* sizeof(type): a 3-component vector is sized as a 4-component one.
SizeOf(type) == FloatSize * (IF Lanes(type) = 3 THEN 4 ELSE Lanes(type))

\* alignof(type): vector types are aligned to their size.
AlignOf(type) == SizeOf(type)

AlignUp(n, a) == ((n + a - 1) \div a) * a

Max(a, b) == IF a >= b THEN a ELSE b

(* ---------------------------- struct layout ---------------------------- *)

\* Offset of the k-th field when the components of all fields are written back
\* to back, with no padding (the tightly packed producer layout).
RECURSIVE PackedOffsetOf(_, _)
PackedOffsetOf(struct, k) ==
    IF k = 1 THEN 0
    ELSE PackedOffsetOf(struct, k - 1) + FloatSize * Lanes(struct[k - 1].type)

\* Mutant of OffsetOf: the alignment of the fields is forgotten.
OffsetOfUnaligned(struct, k) == PackedOffsetOf(struct, k)

\* offsetof(struct, k-th field): fields are laid out in declaration order,
\* each at the next multiple of its alignment.
RECURSIVE OffsetOf(_, _)
OffsetOf(struct, k) ==
    IF k = 1 THEN 0
    ELSE AlignUp(OffsetOf(struct, k - 1) + SizeOf(struct[k - 1].type),
                 AlignOf(struct[k].type))

RECURSIVE StructAlign(_, _)
StructAlign(struct, k) ==
    IF k = 0 THEN 1
    ELSE Max(AlignOf(struct[k].type), StructAlign(struct, k - 1))

\* sizeof(struct): the end of the last field, rounded up to the struct's alignment.
SizeOfStruct(struct) ==
    AlignUp(OffsetOf(struct, Len(struct)) + SizeOf(struct[Len(struct)].type),
            StructAlign(struct, Len(struct)))

\* Mutant of Stride: the stride is taken to be 3 + 4 floats.
StridePacked == PackedOffsetOf(VertexIn, Len(VertexIn) + 1)

\* Distance in bytes between consecutive VertexIn records of a buffer.
Stride == SizeOfStruct(VertexIn)

\* Index of the field called name.
FieldIndex(struct, name) == CHOOSE k \in 1 .. Len(struct) : struct[k].name = name

\* The byte range [first, last] the k-th field occupies inside a record.
FieldRange(struct, k) ==
    OffsetOf(struct, k) .. (OffsetOf(struct, k) + SizeOf(struct[k].type) - 1)

\* The fields of struct bound to attribute index a.
AttributeField(struct, a) ==
    { struct[k].name : k \in { j \in 1 .. Len(struct) : struct[j].attr = a } }

\* The attribute indices struct binds.
BoundAttributes(struct) ==
    { struct[k].attr : k \in { j \in 1 .. Len(struct) : struct[j].attr >= 0 } }

(* ---------------------- binary32 values in memory ---------------------- *)

Abs(n) == IF n < 0 THEN -n ELSE n

RECURSIVE Pow2(_)
Pow2(k) == IF k = 0 THEN 1 ELSE 2 * Pow2(k - 1)

RECURSIVE Log2(_)
Log2(m) == IF m < 2 THEN 0 ELSE 1 + Log2(m \div 2)

\* Sign, biased exponent and 23-bit fraction of the float whose value is the integer n.
FloatBits(n) ==
    IF n = 0 THEN [sign |-> 0, exp |-> 0, man |-> 0]
    ELSE LET m == Abs(n)
             e == Log2(m)
         IN  [sign |-> IF n < 0 THEN 1 ELSE 0,
              exp  |-> e + 127,
              man  |-> (m - Pow2(e)) * Pow2(23 - e)]

\* The four little-endian bytes of the float whose value is the integer n.
Enc(n) ==
    LET f == FloatBits(n)
    IN  << f.man % 256,
           (f.man \div 256) % 256,
           (f.exp % 2) * 128 + (f.man \div 65536),
           f.sign * 128 + (f.exp \div 2) >>

\* The value of a float word, when it is an integer (ok) and otherwise not ok.
Dec(w) ==
    LET s  == w[4] \div 128
        e  == (w[4] % 128) * 2 + (w[3] \div 128)
        m  == (w[3] % 128) * 65536 + w[2] * 256 + w[1]
        sh == 23 - (e - 127)
    IN  IF e = 0 /\ m = 0 THEN [ok |-> TRUE, value |-> 0]
        ELSE IF e >= 127 /\ e <= 150 /\ m % Pow2(sh) = 0
             THEN [ok |-> TRUE,
                   value |-> (IF s = 1 THEN -1 ELSE 1) * ((Pow2(23) + m) \div Pow2(sh))]
             ELSE [ok |-> FALSE, value |-> 0]

\* A vector of integers as a vector of float words.
EncVec(v) == [k \in 1 .. Len(v) |-> Enc(v[k])]

\* Mutant of Store: the bytes of each word are stored most significant first.
StoreBigEndian(buf, addr, words) ==
    [a \in DOMAIN buf |->
        IF a >= addr /\ a < addr + FloatSize * Len(words)
        THEN words[((a - addr) \div FloatSize) + 1][FloatSize - ((a - addr) % FloatSize)]
        ELSE buf[a]]

\* buf after storing the float words at byte address addr.
Store(buf, addr, words) ==
    [a \in DOMAIN buf |->
        IF a >= addr /\ a < addr + FloatSize * Len(words)
        THEN words[((a - addr) \div FloatSize) + 1][((a - addr) % FloatSize) + 1]
        ELSE buf[a]]

\* The n float words of buf starting at byte address addr.
Load(buf, addr, n) ==
    [k \in 1 .. n |->
        [b \in 1 .. FloatSize |-> buf[addr + FloatSize * (k - 1) + (b - 1)]]]

(* ------------------------ producer (host) side ------------------------- *)

FieldNames == { VertexIn[k].name : k \in 1 .. Len(VertexIn) }

\* The producer registers attribute index 0 for position and 1 for color.
HostAttribute(a) == IF a = 0 THEN "position" ELSE "color"

\* A producer-side record that declares the fields in the other order.
ReorderedVertexIn == << VertexIn[2], VertexIn[1] >>

\* The layout the host writes with.  "record": the host uses the record itself
\* (offsetof / sizeof of VertexIn, whole-vector stores).  "packed": the host
\* writes 3 floats and then 4 floats back to back, 28 bytes a vertex.
\* "reordered": the host uses a record that declares color before position.
ProducerOffset(p, name) ==
    IF p = "record" THEN OffsetOf(VertexIn, FieldIndex(VertexIn, name))
    ELSE IF p = "packed" THEN PackedOffsetOf(VertexIn, FieldIndex(VertexIn, name))
    ELSE OffsetOf(ReorderedVertexIn, FieldIndex(ReorderedVertexIn, name))

ProducerStride(p) ==
    IF p = "record" THEN Stride
    ELSE IF p = "packed" THEN PackedOffsetOf(VertexIn, Len(VertexIn) + 1)
    ELSE SizeOfStruct(ReorderedVertexIn)

\* Number of float words one store of the field writes.
ProducerStoreLanes(p, name) ==
    LET t == VertexIn[FieldIndex(VertexIn, name)].type
    IN  IF p = "packed" THEN Lanes(t) ELSE SizeOf(t) \div FloatSize

\* What a whole-vector store may leave in the lanes past the field's components.
PadWords == { Enc(0), <<255, 255, 255, 255>> }

BufferSize == NumVertices * SizeOfStruct(VertexIn)

(* ------------------------- consumer (GPU) side ------------------------- *)

\* Mutant of AttributeOffset: every attribute is fetched from the start of the record.
AttributeOffsetZero(a) == 0

\* Byte offset, inside a record, of the data of attribute index a.
AttributeOffset(a) == OffsetOf(VertexIn, FieldIndex(VertexIn, HostAttribute(a)))

\* Mutant of RecordBase: every invocation is handed the first record.
RecordBaseFirst(i) == 0

\* Byte address of record i.
RecordBase(i) == i * Stride

\* Mutant of ReadField: the read is refused (nothing is returned) unless the
\* producer wrote with the record's own layout.
ReadFieldValidated(buf, i, k) ==
    IF producer = "record"
    THEN Load(buf, i * Stride + OffsetOf(VertexIn, k), Lanes(VertexIn[k].type))
    ELSE << >>

\* The k-th field of record i as read through attribute index VertexIn[k].attr.
ReadField(buf, i, k) ==
    Load(buf, RecordBase(i) + AttributeOffset(VertexIn[k].attr), Lanes(VertexIn[k].type))

\* Record i as read through VertexIn.
ReadRecord(buf, i) ==
    [position |-> ReadField(buf, i, FieldIndex(VertexIn, "position")),
     color    |-> ReadField(buf, i, FieldIndex(VertexIn, "color"))]

\* The vertex function: carries the position over with w = 1 and the colour unchanged.
VertexStage(in) ==
    [position |-> in.position \o << Enc(1) >>, color |-> in.color]

NoVertexIn == [position |-> << >>, color |-> << >>]

NoVertexOut == [position |-> << >>, color |-> << >>]

(* ----------------------------- the pipeline ---------------------------- *)

TypeOK ==
    /\ producer \in {"record", "packed", "reordered"}
    /\ geometry \in [Vertices -> [position : Positions, color : Colors]]
    /\ DOMAIN buffer = 0 .. (BufferSize - 1)
    /\ \A a \in DOMAIN buffer : buffer[a] \in 0 .. 255
    /\ hostWritten \in [Vertices -> SUBSET FieldNames]
    /\ pc \in [Vertices -> {"unwritten", "written", "fetched", "produced",
                            "rasterized", "consumed"}]
    /\ DOMAIN vin = Vertices
    /\ DOMAIN vout = Vertices
    /\ DOMAIN varying = Vertices
    /\ emitted \in [Vertices -> Nat]

\* A new vertex buffer is zero-filled; no vertex has been written or processed.
InitWith(p) ==
    /\ producer = p
    /\ geometry \in [Vertices -> [position : Positions, color : Colors]]
    /\ buffer = [a \in 0 .. (BufferSize - 1) |-> 0]
    /\ hostWritten = [i \in Vertices |-> {}]
    /\ pc = [i \in Vertices |-> "unwritten"]
    /\ vin = [i \in Vertices |-> NoVertexIn]
    /\ vout = [i \in Vertices |-> NoVertexOut]
    /\ varying = [i \in Vertices |-> NoVertexOut]
    /\ emitted = [i \in Vertices |-> 0]

Init == InitWith("record")

InitMismatch == \E p \in {"packed", "reordered"} : InitWith(p)

\* The host stores one field of vertex i into the buffer.
HostWriteField(i, name) ==
    /\ pc[i] = "unwritten"
    /\ name \notin hostWritten[i]
    /\ LET n     == Len(geometry[i][name])
           lanes == ProducerStoreLanes(producer, name)
           addr  == i * ProducerStride(producer) + ProducerOffset(producer, name)
       IN  \E pad \in (IF lanes > n THEN PadWords ELSE {Enc(0)}) :
             buffer' = Store(buffer, addr,
                             EncVec(geometry[i][name]) \o [k \in 1 .. (lanes - n) |-> pad])
    /\ hostWritten' = [hostWritten EXCEPT ![i] = @ \cup {name}]
    /\ pc' = [pc EXCEPT ![i] = IF hostWritten'[i] = FieldNames THEN "written" ELSE @]
    /\ UNCHANGED <<producer, geometry, vin, vout, varying, emitted>>

\* Stage-in fetch of invocation i: its VertexIn is read from the buffer.
Fetch(i) ==
    /\ pc[i] = "written"
    /\ vin' = [vin EXCEPT ![i] = ReadRecord(buffer, i)]
    /\ pc' = [pc EXCEPT ![i] = "fetched"]
    /\ UNCHANGED <<producer, geometry, buffer, hostWritten, vout, varying, emitted>>

\* Invocation i runs the vertex function and produces its VertexOut.
Shade(i) ==
    /\ pc[i] = "fetched"
    /\ vout' = [vout EXCEPT ![i] = VertexStage(vin[i])]
    /\ vin' = [vin EXCEPT ![i] = NoVertexIn]
    /\ emitted' = [emitted EXCEPT ![i] = @ + 1]
    /\ pc' = [pc EXCEPT ![i] = "produced"]
    /\ UNCHANGED <<producer, geometry, buffer, hostWritten, varying>>

\* Mutant of Rasterize: the VertexOut records are kept after they are consumed.
RasterizeKeepsOutput ==
    /\ \A i \in Vertices : pc[i] = "produced"
    /\ varying' = vout
    /\ pc' = [i \in Vertices |-> "rasterized"]
    /\ UNCHANGED <<producer, geometry, buffer, hostWritten, vin, vout, emitted>>

\* The rasterizer consumes the VertexOut of every vertex of the primitive and
\* hands the values at each vertex on to the fragment stage.
Rasterize ==
    /\ \A i \in Vertices : pc[i] = "produced"
    /\ varying' = vout
    /\ vout' = [i \in Vertices |-> NoVertexOut]
    /\ pc' = [i \in Vertices |-> "rasterized"]
    /\ UNCHANGED <<producer, geometry, buffer, hostWritten, vin, emitted>>

\* The fragment stage consumes the interpolated values of vertex i.
Fragment(i) ==
    /\ pc[i] = "rasterized"
    /\ varying' = [varying EXCEPT ![i] = NoVertexOut]
    /\ pc' = [pc EXCEPT ![i] = "consumed"]
    /\ UNCHANGED <<producer, geometry, buffer, hostWritten, vin, vout, emitted>>

Next ==
    \/ \E i \in Vertices : \E name \in FieldNames : HostWriteField(i, name)
    \/ \E i \in Vertices : Fetch(i)
    \/ \E i \in Vertices : Shade(i)
    \/ Rasterize
    \/ \E i \in Vertices : Fragment(i)

Spec == Init /\ [][Next]_vars

SpecMismatch == InitMismatch /\ [][Next]_vars

(* ------------------------------ properties ----------------------------- *)

\* The float words of the values the host holds for vertex i.
EncRecord(i) ==
    [position |-> EncVec(geometry[i].position), color |-> EncVec(geometry[i].color)]

RECURSIVE SumSizeOf(_, _)
SumSizeOf(struct, k) ==
    IF k = 0 THEN 0 ELSE SizeOf(struct[k].type) + SumSizeOf(struct, k - 1)

\* C1: attribute index 0 resolves to position and index 1 to color, the two
\* fields have distinct indices, no other index is bound, and this holds for
\* every record instance: what an invocation fetched into position is the data
\* stored under attribute 0 of its record, what it fetched into color is the
\* data stored under attribute 1.
C1_AttributeBinding ==
    /\ AttributeField(VertexIn, 0) = {"position"}
    /\ AttributeField(VertexIn, 1) = {"color"}
    /\ BoundAttributes(VertexIn) = {0, 1}
    /\ \A i \in Vertices :
         pc[i] = "fetched" =>
           /\ vin[i].position = Load(buffer, RecordBase(i) + AttributeOffset(0), 3)
           /\ vin[i].color = Load(buffer, RecordBase(i) + AttributeOffset(1), 4)
           /\ vin[i] = EncRecord(i)

\* C1 witness: an invocation has fetched a record whose position and color differ.
C1_Witness ==
    \E i \in Vertices :
      /\ pc[i] = "fetched"
      /\ geometry[i].position = <<-1, 2, 3>>
      /\ vin[i].position # Load(buffer, RecordBase(i) + AttributeOffset(1), 3)

\* C2 (as amended): a record is as large as the sum of the sizes of its fields,
\* where a float3 field takes 16 bytes like a float4: VertexIn is 16 + 16 = 32
\* bytes and VertexOut is 16 + 16 = 32 bytes; record i of the buffer starts at
\* byte 32 * i, and the buffer holds 32 bytes a vertex.
C2_RecordSizes ==
    /\ SizeOfStruct(VertexIn) = 32
    /\ SizeOfStruct(VertexOut) = 32
    /\ SizeOfStruct(VertexIn) = SumSizeOf(VertexIn, Len(VertexIn))
    /\ SizeOfStruct(VertexOut) = SumSizeOf(VertexOut, Len(VertexOut))
    /\ DOMAIN buffer = 0 .. (32 * NumVertices - 1)
    /\ \A i \in Vertices :
         hostWritten[i] = FieldNames =>
           /\ Load(buffer, 32 * i, 3) = EncVec(geometry[i].position)
           /\ Load(buffer, 32 * i + 16, 4) = EncVec(geometry[i].color)

\* C2 witness: the last record of the buffer has been written in full.
C2_Witness ==
    /\ hostWritten[NumVertices - 1] = FieldNames
    /\ pc[NumVertices - 1] = "written"

\* C2 as stated: whenever a record has been written, VertexIn is
\* 3*4 + 4*4 = 28 bytes and VertexOut is 4*4 + 4*4 = 32 bytes.
C2_Original ==
    (\E i \in Vertices : pc[i] = "written") =>
      /\ SizeOfStruct(VertexIn) = 3 * 4 + 4 * 4
      /\ SizeOfStruct(VertexOut) = 4 * 4 + 4 * 4

\* C3: round trip.  Every field the host has written into a slot of the buffer
\* reads back, through the same record layout, as exactly the words written,
\* whatever was written to the buffer afterwards.
C3_RoundTrip ==
    \A i \in Vertices : \A name \in hostWritten[i] :
      ReadField(buffer, i, FieldIndex(VertexIn, name)) = EncVec(geometry[i][name])

\* C3 witness: a record with a negative component has been written in full and
\* the store of position has left all-ones in the padding lane next to color.
C3_Witness ==
    \E i \in Vertices :
      /\ hostWritten[i] = FieldNames
      /\ geometry[i].position = <<-1, 2, 3>>
      /\ ReadRecord(buffer, i) = EncRecord(i)
      /\ Load(buffer, RecordBase(i) + 12, 1) = << <<255, 255, 255, 255>> >>

\* C4: once the vertex stage (which appends w = 1) has run on the record
\* {position:(x,y,z), color:c}, the invocation holds exactly one VertexOut, with
\* position (x,y,z,1) in the 4 components of a float4 and color c; for
\* {position:(0,0,0), color:(1,0,0,1)} these are the words of (0,0,0,1) and (1,0,0,1).
C4_IdentityStage ==
    \A i \in Vertices :
      pc[i] = "produced" =>
        /\ emitted[i] = 1
        /\ Len(vout[i].position) = Lanes(VertexOut[FieldIndex(VertexOut, "position")].type)
        /\ Len(vout[i].color) = Lanes(VertexOut[FieldIndex(VertexOut, "color")].type)
        /\ vout[i].position = EncVec(geometry[i].position \o <<1>>)
        /\ vout[i].color = EncVec(geometry[i].color)
        /\ (geometry[i] = [position |-> <<0, 0, 0>>, color |-> <<1, 0, 0, 1>>] =>
              vout[i] = [position |-> << <<0, 0, 0, 0>>, <<0, 0, 0, 0>>,
                                         <<0, 0, 0, 0>>, <<0, 0, 128, 63>> >>,
                         color    |-> << <<0, 0, 128, 63>>, <<0, 0, 0, 0>>,
                                         <<0, 0, 0, 0>>, <<0, 0, 128, 63>> >>])

\* C4 witness: the stage has produced the output for {(0,0,0), (1,0,0,1)}.
C4_Witness ==
    \E i \in Vertices :
      /\ pc[i] = "produced"
      /\ geometry[i] = [position |-> <<0, 0, 0>>, color |-> <<1, 0, 0, 1>>]

\* The integer values of a vector of float words (all of them integral).
DecVec(v) == [k \in 1 .. Len(v) |-> Dec(v[k]).value]

AllIntegral(v) == \A k \in 1 .. Len(v) : Dec(v[k]).ok

\* Two vertices with the same color and different positions, both outputs live.
SameColorPair(i, j) ==
    /\ i # j
    /\ pc[i] = "produced"
    /\ pc[j] = "produced"
    /\ geometry[i].color = geometry[j].color
    /\ geometry[i].position # geometry[j].position

\* The difference of the input positions of i and j.
PositionDelta(i, j) ==
    [k \in 1 .. 3 |-> geometry[i].position[k] - geometry[j].position[k]]

OwnOutput(i) ==
    IF pc[i] = "produced"
    THEN [position |-> EncVec(geometry[i].position \o <<1>>),
          color    |-> EncVec(geometry[i].color)]
    ELSE NoVertexOut

\* C6: under every interleaving of the invocations, the VertexOut of an
\* invocation is determined by its own VertexIn alone (so the outputs are those
\* of any sequential order), each invocation produces one VertexOut, and a step
\* of one invocation leaves the records of every other invocation untouched.
C6_Independent ==
    /\ [](\A i \in Vertices : vout[i] = OwnOutput(i) /\ emitted[i] <= 1)
    /\ [][\A i, j \in Vertices :
            (i # j /\ pc[i] \in {"written", "fetched"} /\ pc'[i] # pc[i]) =>
              (vin'[j] = vin[j] /\ vout'[j] = vout[j] /\ pc'[j] = pc[j])]_vars

\* C6 witness: two invocations with different records are in flight at
\* different points, one having produced its output before the other ran.
C6_Witness ==
    \E i, j \in Vertices :
      /\ pc[i] = "produced"
      /\ pc[j] = "fetched"
      /\ geometry[i] # geometry[j]

\* C7: a record of the buffer that the host has written keeps the position and
\* color the host wrote, whatever the vertex stage, the rasterizer, the fragment
\* stage and the host's writes of other records do afterwards.
C7_InputReadOnly ==
    \A i \in Vertices :
      pc[i] # "unwritten" => ReadRecord(buffer, i) = EncRecord(i)

\* C7 witness: every vertex has gone through the vertex stage, the rasterizer
\* and the fragment stage.
C7_Witness ==
    /\ \A i \in Vertices : pc[i] = "consumed"
    /\ \E i, j \in Vertices : geometry[i] # geometry[j]

\* A float word: four bytes.
IsWord(w) == Len(w) = FloatSize /\ \A b \in 1 .. FloatSize : w[b] \in 0 .. 255

\* C8: with a producer whose layout does not match VertexIn, nothing is
\* validated and nothing is reported: the fetch of a written record is always
\* possible, it returns a position of 3 words and a color of 4 words, and the
\* pipeline has no error state.
C8_NoValidation ==
    \A i \in Vertices :
      /\ pc[i] \in {"unwritten", "written", "fetched", "produced", "rasterized", "consumed"}
      /\ (pc[i] = "written" => ENABLED Fetch(i))
      /\ (pc[i] = "fetched" =>
            /\ Len(vin[i].position) = 3
            /\ Len(vin[i].color) = 4
            /\ \A k \in 1 .. 3 : IsWord(vin[i].position[k])
            /\ \A k \in 1 .. 4 : IsWord(vin[i].color[k]))

\* C8 witness: silent corruption.  An invocation has fetched, without any
\* error, a record whose color is not the color the producer held.
C8_Witness ==
    \E i \in Vertices :
      /\ producer = "packed"
      /\ pc[i] = "fetched"
      /\ vin[i].position = EncVec(geometry[i].position)
      /\ vin[i].color # EncVec(geometry[i].color)

\* The order of the pipeline events of one vertex.
PipelineOrder ==
    { <<"unwritten", "written">>, <<"written", "fetched">>, <<"fetched", "produced">>,
      <<"produced", "rasterized">>, <<"rasterized", "consumed">> }

\* C9: for every vertex the events come in the order host write, vertex stage
\* (read, then produce), rasterizer, fragment stage.  A record yields exactly
\* one VertexOut; the VertexOut exists only between its production and its
\* consumption by the rasterizer and is discarded by then; the interpolated
\* values exist only between the rasterizer and the fragment stage.
C9_PipelineOrder ==
    /\ [](\A i \in Vertices :
            /\ emitted[i] = (IF pc[i] \in {"produced", "rasterized", "consumed"} THEN 1 ELSE 0)
            /\ (vout[i] # NoVertexOut <=> pc[i] = "produced")
            /\ (varying[i] # NoVertexOut <=> pc[i] = "rasterized")
            /\ (vin[i] # NoVertexIn <=> pc[i] = "fetched")
            /\ (pc[i] # "unwritten" <=> hostWritten[i] = FieldNames))
    /\ [][\A i \in Vertices : pc'[i] # pc[i] => <<pc[i], pc'[i]>> \in PipelineOrder]_vars

\* C9 witness: the rasterizer has consumed the outputs; the fragment stage has
\* consumed the values of one vertex and not yet those of another.
C9_Witness ==
    \E i, j \in Vertices :
      /\ pc[i] = "consumed"
      /\ pc[j] = "rasterized"
      /\ varying[j].color = EncVec(geometry[j].color)
      /\ vout[j] = NoVertexOut

\* C10 (as amended): in both records position is declared before color and the
\* byte ranges of the two fields are disjoint.  VertexIn: position is 3 floats
\* at offset 0, followed by one float of padding, and color is the 4 floats at
\* offset 16.  VertexOut: position is the 4 floats at offset 0 and color the 4
\* floats at offset 16.  A write of a field of record i changes no byte outside
\* that field's range: none of the other field, none of another record.
C10_Layout ==
    /\ [](/\ FieldIndex(VertexIn, "position") < FieldIndex(VertexIn, "color")
          /\ FieldIndex(VertexOut, "position") < FieldIndex(VertexOut, "color")
          /\ FieldRange(VertexIn, 1) \cap FieldRange(VertexIn, 2) = {}
          /\ FieldRange(VertexOut, 1) \cap FieldRange(VertexOut, 2) = {}
          /\ OffsetOf(VertexIn, 1) = 0 /\ Lanes(VertexIn[1].type) = 3
          /\ OffsetOf(VertexIn, 2) = 16 /\ Lanes(VertexIn[2].type) = 4
          /\ OffsetOf(VertexOut, 1) = 0 /\ Lanes(VertexOut[1].type) = 4
          /\ OffsetOf(VertexOut, 2) = 16 /\ Lanes(VertexOut[2].type) = 4)
    /\ [][\A i \in Vertices : \A name \in FieldNames :
            (name \in hostWritten'[i] /\ name \notin hostWritten[i]) =>
              LET k     == FieldIndex(VertexIn, name)
                  first == RecordBase(i) + OffsetOf(VertexIn, k)
                  last  == first + SizeOf(VertexIn[k].type) - 1
              IN  \A a \in DOMAIN buffer :
                    (a < first \/ a > last) => buffer'[a] = buffer[a]]_vars

\* C10 witness: position has been stored after color in a record that follows
\* a complete record; the store left all-ones in the padding lane.
C10_Witness ==
    \E i \in Vertices :
      /\ i > 0
      /\ hostWritten[i - 1] = FieldNames
      /\ hostWritten[i] = FieldNames
      /\ Load(buffer, RecordBase(i) + 12, 1) = << <<255, 255, 255, 255>> >>
      /\ ReadRecord(buffer, i - 1) = EncRecord(i - 1)
      /\ ReadRecord(buffer, i) = EncRecord(i)

\* C10 as stated: once a field has been written, color of VertexIn is the 4
\* floats that follow the 3 floats of position (byte offset 12), and color of
\* VertexOut the 4 floats that follow the 4 floats of position.
C10_Original ==
    (\E i \in Vertices : hostWritten[i] # {}) =>
      /\ OffsetOf(VertexIn, 1) = 0
      /\ OffsetOf(VertexIn, 2) = FloatSize * 3
      /\ OffsetOf(VertexOut, 1) = 0
      /\ OffsetOf(VertexOut, 2) = FloatSize * 4

====
